---------------------------- MODULE Spec2Model ----------------------------
(***************************************************************************)
(* Model of the weather-report service in src/main.py.                     *)
(*                                                                         *)
(* Spec          one POST /weather_report request and the background unit  *)
(*               process_weather_request that it schedules, one step per   *)
(*               external call.                                            *)
(* SpecLabel     get_weather_description applied to a condition code.      *)
(* SpecExtremes  get_expected_max_min and the range line of                *)
(*               summarize_weather applied to a forecast list.             *)
(* SpecTime      the time conversions of summarize_weather and of the HTML *)
(*               dictionary built in process_weather_request.              *)
(***************************************************************************)
EXTENDS Integers, Sequences, FiniteSets, TLC

VARIABLES
    \* ---- request handling and the background unit ----
    pc,               \* position of the request / background unit
    response,         \* what the HTTP caller has received
    tasks,            \* BackgroundTasks: the scheduled calls, in order
    request,          \* weather_request bound in the running unit
    idx,              \* index of the location the for-loop is at
    current_data,     \* get_weather_data: current_response.json()
    forecast_data,    \* get_weather_data: forecast_response.json()
    pollution_data,   \* get_weather_data: pollution_response.json()
    full_report,      \* accumulator of process_weather_request
    calls,            \* every external call issued so far, in order
    sent_mail,        \* the Mail objects handed to sg.send
    log,              \* lines printed / tracebacks logged by the server
    \* ---- get_weather_description ----
    weather_id,
    weather_description,
    \* ---- get_expected_max_min / range line ----
    forecast_list,
    now,              \* the server's clock when the report is formatted
    temperature_pref,
    expected,
    range_line,
    \* ---- time conversion ----
    server_tz,        \* the zone of the machine the service runs on
    timezone,         \* weather_request.timezone
    stamps,           \* dt, sunrise, sunset of current_data and a forecast dt
    shown             \* the rendered times

unitVars == <<pc, response, tasks, request, idx, current_data, forecast_data,
              pollution_data, full_report, calls, sent_mail, log>>
labelVars == <<weather_id, weather_description>>
extremesVars == <<forecast_list, now, temperature_pref, expected, range_line>>
timeVars == <<server_tz, timezone, stamps, shown>>
pureVars == <<labelVars, extremesVars, timeVars>>
vars == <<unitVars, pureVars>>

----------------------------------------------------------------------------
(* Bounds of the model *)

MaxLocations == 2
MaxForecast == 2
MaxTemp == 2
MaxEpochStep == 3
MaxCode == 900

----------------------------------------------------------------------------
(* Request bodies *)

Cities == {"Pune,IN", "Oslo,NO"}

\* receiver_emails entries a client may post: one that EmailStr accepts and
\* one that it rejects.
PostedEmails == {"a@example.com", "not-an-email"}

\* timezone strings a client may post: the default, and one pytz does not know.
PostedTimezones == {"Asia/Kolkata", "Mars/Phobos"}

SeqsUpTo(S, n) == UNION {[1..k -> S] : k \in 0..n}

Bodies ==
    [locations : SeqsUpTo(Cities, MaxLocations),
     has_preferences : BOOLEAN,
     receiver_emails : SeqsUpTo(PostedEmails, 1),
     timezone : PostedTimezones]

NoRequest ==
    [locations |-> <<>>, has_preferences |-> FALSE,
     receiver_emails |-> <<>>, timezone |-> ""]

EmailStr(e) == e = "a@example.com"

\* pydantic validation of the body against WeatherRequest: locations is a
\* List[Location], preferences has no default and is required,
\* receiver_emails is a List[EmailStr], timezone is any str.
WeatherRequest(body) ==
    /\ body.has_preferences
    /\ \A i \in DOMAIN body.receiver_emails : EmailStr(body.receiver_emails[i])

AckMessage == "Weather report generation started. You will receive an email soon."

----------------------------------------------------------------------------
(* Provider responses *)

\* the keys of aqi_labels
aqi_labels == {1, 2, 3, 4, 5}

\* air-quality indexes the pollution endpoint is modelled to return
AqiValues == aqi_labels \cup {0, 6}

\* coordinates the current-conditions endpoint is modelled to return
Coords == {11, 22}

NoData == [status |-> "none", value |-> 0]
ErrorJson == [status |-> "error", value |-> 0]
OkJson(v) == [status |-> "ok", value |-> v]

\* what one HTTP call of get_weather_data can produce: a JSON document with
\* the documented fields, a JSON error document (requests.get does not raise
\* on a 4xx/5xx status), or an exception (network error, body not JSON)
Outcomes == {"ok", "error", "raise"}

Call(api, i, sent, returned, outcome) ==
    [api |-> api, index |-> i, location |-> request.locations[i],
     sent |-> sent, returned |-> returned, outcome |-> outcome]

EmailCall(outcome) ==
    [api |-> "email", index |-> 0, location |-> "",
     sent |-> 0, returned |-> 0, outcome |-> outcome]

known_timezone(tz) == tz = "Asia/Kolkata"


----------------------------------------------------------------------------
(* The background unit: process_weather_request *)

Locations == request.locations
NumLocations == Len(request.locations)

\* the for-loop header: the next location, or the code after the loop
loop_pc(i, n) == IF i <= n THEN "fetch_current" ELSE "send"

after_exception_isolated(i, n) == [pc |-> loop_pc(i + 1, n), idx |-> i + 1]

\* An exception raised inside the loop body is caught nowhere in
\* process_weather_request: it leaves the function, and the unit is over.
after_exception(i, n) == [pc |-> "failed", idx |-> i]

Raise(exc) ==
    /\ pc' = after_exception(idx, NumLocations).pc
    /\ idx' = after_exception(idx, NumLocations).idx
    /\ log' = Append(log, exc)

CurrentReplies == [outcome : {"ok"}, value : Coords]
                      \cup [outcome : {"error", "raise"}, value : {0}]
ForecastReplies == [outcome : Outcomes, value : {0}]
PollutionReplies == [outcome : {"ok"}, value : AqiValues]
                        \cup [outcome : {"error", "raise"}, value : {0}]

Json(reply) == IF reply.outcome = "ok" THEN OkJson(reply.value) ELSE ErrorJson

\* get_weather_data, first call: current conditions by city and country
FetchCurrent ==
    /\ pc = "fetch_current"
    /\ UNCHANGED pureVars
    /\ \E reply \in CurrentReplies :
         /\ calls' = Append(calls, Call("current", idx, 0, reply.value, reply.outcome))
         /\ IF reply.outcome = "raise"
               THEN /\ Raise("RequestException")
                    /\ UNCHANGED current_data
               ELSE /\ current_data' = Json(reply)
                    /\ pc' = "fetch_forecast"
                    /\ UNCHANGED <<idx, log>>
    /\ UNCHANGED <<response, tasks, request, forecast_data, pollution_data,
                   full_report, sent_mail>>

\* get_weather_data, second call: forecast by city and country
FetchForecast ==
    /\ pc = "fetch_forecast"
    /\ UNCHANGED pureVars
    /\ \E reply \in ForecastReplies :
         /\ calls' = Append(calls, Call("forecast", idx, 0, 0, reply.outcome))
         /\ IF reply.outcome = "raise"
               THEN /\ Raise("RequestException")
                    /\ UNCHANGED forecast_data
               ELSE /\ forecast_data' = Json(reply)
                    /\ pc' = "fetch_pollution"
                    /\ UNCHANGED <<idx, log>>
    /\ UNCHANGED <<response, tasks, request, current_data, pollution_data,
                   full_report, sent_mail>>

pollution_query_fixed(current) == 0

\* lat, lon = current_data["coord"]["lat"], current_data["coord"]["lon"]
pollution_query(current) == current.value

\* get_weather_data, third call: pollution by the coordinates of the
\* current-conditions document; an error document has no "coord" key
FetchPollution ==
    /\ pc = "fetch_pollution"
    /\ UNCHANGED pureVars
    /\ IF current_data.status # "ok"
          THEN /\ Raise("KeyError")
               /\ UNCHANGED <<calls, pollution_data>>
          ELSE \E reply \in PollutionReplies :
                 /\ calls' = Append(calls, Call("pollution", idx,
                                                pollution_query(current_data),
                                                reply.value, reply.outcome))
                 /\ IF reply.outcome = "raise"
                       THEN /\ Raise("RequestException")
                            /\ UNCHANGED pollution_data
                       ELSE /\ pollution_data' = Json(reply)
                            /\ pc' = "summarize"
                            /\ UNCHANGED <<idx, log>>
    /\ UNCHANGED <<response, tasks, request, current_data, forecast_data,
                   full_report, sent_mail>>

\* summarize_weather raises when pytz does not know the zone, when
\* forecast_data or pollution_data has no "list" key, or when the index is no
\* key of aqi_labels; "" when it returns
summarize_weather_error(tz, forecast, pollution) ==
    IF ~known_timezone(tz) THEN "UnknownTimeZoneError"
    ELSE IF forecast.status # "ok" THEN "KeyError"
    ELSE IF pollution.status # "ok" THEN "KeyError"
    ELSE IF pollution.value \notin aqi_labels THEN "KeyError"
    ELSE ""

Summarize ==
    /\ pc = "summarize"
    /\ UNCHANGED pureVars
    /\ LET err == summarize_weather_error(request.timezone, forecast_data,
                                          pollution_data)
       IN  IF err # ""
              THEN Raise(err)
              ELSE /\ pc' = "narrate"
                   /\ UNCHANGED <<idx, log>>
    /\ UNCHANGED <<response, tasks, request, current_data, forecast_data,
                   pollution_data, full_report, calls, sent_mail>>

\* the HTML document of one location
generate_html_ui(location, pollution) ==
    [location |-> location, air_quality |-> pollution.value]

accumulate_overwrite(report, html) == <<html>>

\* full_report += generate_html_ui(weather_summary_dict)
accumulate(report, html) == Append(report, html)

\* the dictionary of the location with generate_ai_summary's one
\* chat-completion call, then the rendering and the accumulation
Narrate ==
    /\ pc = "narrate"
    /\ UNCHANGED pureVars
    /\ \E outcome \in {"ok", "raise"} :
         /\ calls' = Append(calls, Call("narration", idx, 0, 0, outcome))
         /\ IF outcome = "raise"
               THEN /\ Raise("APIError")
                    /\ UNCHANGED full_report
               ELSE /\ full_report' =
                         accumulate(full_report,
                                    generate_html_ui(Locations[idx], pollution_data))
                    /\ idx' = idx + 1
                    /\ pc' = loop_pc(idx + 1, NumLocations)
                    /\ UNCHANGED log
    /\ UNCHANGED <<response, tasks, request, current_data, forecast_data,
                   pollution_data, sent_mail>>

send_email_propagates(outcome) == outcome = "raise"

\* does send_email leave by an exception?  sg.send is inside try/except
\* Exception, which prints the error and falls through
send_email_raises(outcome) == FALSE

\* the code after the loop: the subject, then send_email
SendEmail ==
    /\ pc = "send"
    /\ UNCHANGED pureVars
    /\ \E outcome \in {"ok", "raise"} :
         /\ calls' = Append(calls, EmailCall(outcome))
         /\ sent_mail' = Append(sent_mail, [to |-> request.receiver_emails,
                                            body |-> full_report])
         /\ log' = log \o <<"Email body:",
                            IF outcome = "ok" THEN "Email sent"
                                              ELSE "Error sending email">>
         /\ pc' = IF send_email_raises(outcome) THEN "failed" ELSE "completed"
    /\ UNCHANGED <<response, tasks, request, idx, current_data, forecast_data,
                   pollution_data, full_report>>

----------------------------------------------------------------------------
(* The endpoint *)

create_weather_report_inline(weather_request) ==
    /\ request' = weather_request
    /\ idx' = 1
    /\ pc' = loop_pc(1, Len(weather_request.locations))
    /\ UNCHANGED <<response, tasks>>

\* background_tasks.add_task(process_weather_request, weather_request), then
\* the acknowledgement is returned
create_weather_report(weather_request) ==
    /\ tasks' = Append(tasks, weather_request)
    /\ response' = AckMessage
    /\ pc' = "scheduled"
    /\ UNCHANGED <<request, idx>>

\* POST /weather_report: the framework validates the body against
\* WeatherRequest and answers 422 itself when it does not fit
Post ==
    /\ pc = "idle"
    /\ UNCHANGED pureVars
    /\ \E body \in Bodies :
         IF WeatherRequest(body)
            THEN create_weather_report(body)
            ELSE /\ response' = "422"
                 /\ pc' = "rejected"
                 /\ UNCHANGED <<tasks, request, idx>>
    /\ UNCHANGED <<current_data, forecast_data, pollution_data, full_report,
                   calls, sent_mail, log>>

\* the framework runs the scheduled tasks once the response has been sent
RunBackground ==
    /\ pc = "scheduled"
    /\ UNCHANGED pureVars
    /\ response = AckMessage
    /\ tasks # <<>>
    /\ request' = Head(tasks)
    /\ tasks' = Tail(tasks)
    /\ idx' = 1
    /\ pc' = loop_pc(1, Len(Head(tasks).locations))
    /\ UNCHANGED <<response, current_data, forecast_data, pollution_data,
                   full_report, calls, sent_mail, log>>

----------------------------------------------------------------------------
(* Specification of one request *)

UnitInit ==
    /\ pc = "idle"
    /\ response = "none"
    /\ tasks = <<>>
    /\ request = NoRequest
    /\ idx = 0
    /\ current_data = NoData
    /\ forecast_data = NoData
    /\ pollution_data = NoData
    /\ full_report = <<>>
    /\ calls = <<>>
    /\ sent_mail = <<>>
    /\ log = <<>>

LabelIdle == weather_id = 0 /\ weather_description = ""

\* (None, None)
NoPair == [none |-> TRUE, max |-> 0, min |-> 0]

ExtremesIdle ==
    /\ forecast_list = <<>>
    /\ now = 0
    /\ temperature_pref = FALSE
    /\ expected = NoPair
    /\ range_line = "pending"

NoStamps == [dt |-> 0, sunrise |-> 0, sunset |-> 0, forecast_dt |-> 0]

NoTime == <<0, 0, 0, "">>

NotShown ==
    [rendered |-> FALSE,
     generated |-> NoTime, sunrise |-> NoTime, sunset |-> NoTime,
     forecast_date |-> NoTime,
     html_timestamp |-> NoTime, html_sunrise |-> NoTime,
     html_sunset |-> NoTime, html_day |-> NoTime]

TimeIdle ==
    /\ server_tz = "UTC"
    /\ timezone = "UTC"
    /\ stamps = NoStamps
    /\ shown = NotShown

Init == UnitInit /\ LabelIdle /\ ExtremesIdle /\ TimeIdle

Next ==
    \/ Post
    \/ RunBackground
    \/ FetchCurrent
    \/ FetchForecast
    \/ FetchPollution
    \/ Summarize
    \/ Narrate
    \/ SendEmail

Spec == Init /\ [][Next]_vars

----------------------------------------------------------------------------
(* Properties of one request *)

Terminal == pc \in {"completed", "failed"}

CountCalls(api) == Cardinality({k \in DOMAIN calls : calls[k].api = api})

WeatherApis == {"current", "forecast", "pollution"}

\* a call of the pipeline that did not deliver what the next stage needs
FailedCall(c) ==
    /\ c.api \in WeatherApis \cup {"narration"}
    /\ \/ c.outcome # "ok"
       \/ c.api = "pollution" /\ c.returned \notin aqi_labels

\* every weather and narration call issued so far returned its document, with
\* an air-quality index of the provider's scale, and the request names a zone
\* pytz knows
EveryCallSucceeded ==
    /\ known_timezone(request.timezone)
    /\ \A k \in DOMAIN calls : ~FailedCall(calls[k])

\* C1: the acknowledgement is with the caller once the unit is scheduled and
\* before the unit issues any external call, only an accepted request gets
\* it, and it is the same message when the unit has ended Completed or Failed.
C1_AckBeforeAnyCall ==
    /\ response \in {"none", "422", AckMessage}
    /\ response = AckMessage => pc \notin {"idle", "rejected"}
    /\ pc = "scheduled" => response = AckMessage /\ calls = <<>>
    /\ calls # <<>> => response = AckMessage
    /\ pc \notin {"idle", "rejected"} => response = AckMessage

C1_Witness ==
    /\ pc = "failed"
    /\ Len(calls) >= 2
    /\ response = AckMessage

\* C2: when every provider call of a request with N locations succeeds, the
\* unit ends with exactly one email send, issued after the N-th narration, and
\* its body is the N sections of the locations in request order; in no state
\* is there a second send or a send of fewer sections.
C2_OneEmailWholeReport ==
    /\ Len(sent_mail) <= 1
    /\ CountCalls("email") = Len(sent_mail)
    /\ sent_mail # <<>> =>
         /\ calls[Len(calls)].api = "email"
         /\ CountCalls("narration") = NumLocations
         /\ Len(sent_mail[1].body) = NumLocations
         /\ \A i \in 1..NumLocations :
              /\ sent_mail[1].body[i].location = Locations[i]
              /\ \E k \in DOMAIN calls :
                   /\ calls[k].api = "pollution"
                   /\ calls[k].index = i
                   /\ calls[k].returned = sent_mail[1].body[i].air_quality
    /\ (Terminal /\ EveryCallSucceeded) => Len(sent_mail) = 1

C2_Witness ==
    /\ pc = "completed"
    /\ NumLocations = 2
    /\ Locations[1] # Locations[2]
    /\ EveryCallSucceeded
    /\ Len(sent_mail) = 1
    /\ Len(sent_mail[1].body) = 2

\* C3: once a weather fetch or the narration call has failed, or the pollution
\* call has returned an index outside 1..5, nothing is sent and nothing more
\* is done for the request: no email, no narration, no call for a later
\* location, no section for the failing location, and the unit is Failed or
\* still inside the failing location's fetch and formatting, never Completed.
C3_FailureAbortsBatch ==
    \A k \in DOMAIN calls :
        FailedCall(calls[k]) =>
            /\ sent_mail = <<>>
            /\ CountCalls("email") = 0
            /\ \A j \in DOMAIN calls :
                 j > k => /\ calls[j].index = calls[k].index
                          /\ calls[j].api \in WeatherApis
            /\ idx = calls[k].index
            /\ Len(full_report) = calls[k].index - 1
            /\ pc \in {"failed", "fetch_forecast", "fetch_pollution", "summarize"}
            /\ pc = "failed" => log # <<>> /\ log[Len(log)] \notin {"Email sent", "Error sending email"}

C3_Witness ==
    /\ pc = "failed"
    /\ NumLocations = 2
    /\ idx = 1
    /\ \E k \in DOMAIN calls : FailedCall(calls[k])

\* C4: a failing send is caught and logged: the unit is Completed, the send
\* was the last call and the only send, and the caller holds the
\* acknowledgement it got before.
C4_SendFailureSwallowed ==
    \A k \in DOMAIN calls :
        (calls[k].api = "email" /\ calls[k].outcome = "raise") =>
            /\ pc = "completed"
            /\ k = Len(calls)
            /\ CountCalls("email") = 1
            /\ Len(sent_mail) = 1
            /\ log[Len(log)] = "Error sending email"
            /\ response = AckMessage

C4_Witness ==
    /\ pc = "completed"
    /\ NumLocations >= 1
    /\ calls[Len(calls)].api = "email"
    /\ calls[Len(calls)].outcome = "raise"

CallOrder == <<"current", "forecast", "pollution", "narration">>

\* C5: while every call succeeds, the k-th call is the ((k-1) mod 4)-th stage
\* of location ((k-1) div 4) + 1, the pollution call carries the coordinates
\* that location's current-conditions call returned, the email call comes
\* after the 4N-th call, and the unit ends with 3N + N + 1 calls.
C5_CallSequence ==
    EveryCallSucceeded =>
        /\ \A k \in DOMAIN calls :
             IF k <= 4 * NumLocations
                THEN /\ calls[k].api = CallOrder[((k - 1) % 4) + 1]
                     /\ calls[k].index = ((k - 1) \div 4) + 1
                     /\ calls[k].location = Locations[calls[k].index]
                     /\ calls[k].api = "pollution" =>
                          /\ calls[k - 2].api = "current"
                          /\ calls[k].sent = calls[k - 2].returned
                ELSE /\ k = 4 * NumLocations + 1
                     /\ calls[k].api = "email"
        /\ Terminal =>
             /\ pc = "completed"
             /\ Len(calls) = 4 * NumLocations + 1
             /\ CountCalls("current") = NumLocations
             /\ CountCalls("forecast") = NumLocations
             /\ CountCalls("pollution") = NumLocations
             /\ CountCalls("narration") = NumLocations
             /\ CountCalls("email") = 1

C5_Witness ==
    /\ pc = "completed"
    /\ NumLocations = 2
    /\ EveryCallSucceeded
    /\ Len(calls) = 9
    /\ calls[1].returned # calls[5].returned

\* the request the endpoint accepted
Accepted == IF pc = "scheduled" THEN Head(tasks) ELSE request

\* C6: a request is scheduled, and calls are made for it, only if its
\* locations list and its recipient list are non-empty.
C6_EmptyListsRejected ==
    pc \notin {"idle", "rejected"} =>
        /\ Len(Accepted.locations) > 0
        /\ Len(Accepted.receiver_emails) > 0

----------------------------------------------------------------------------
(* get_weather_description *)

get_weather_description_le(id) ==
    IF id <= 300 THEN "Thunderstorm"
    ELSE IF id <= 500 THEN "Drizzle"
    ELSE IF id <= 600 THEN "Rain"
    ELSE IF id <= 700 THEN "Snow"
    ELSE IF id <= 800 THEN "Atmosphere"
    ELSE IF id = 800 THEN "Clear"
    ELSE "Clouds"

get_weather_description_guarded(id) ==
    IF id < 0 THEN "Clouds"
    ELSE IF id < 300 THEN "Thunderstorm"
    ELSE IF id < 500 THEN "Drizzle"
    ELSE IF id < 600 THEN "Rain"
    ELSE IF id < 700 THEN "Snow"
    ELSE IF id < 800 THEN "Atmosphere"
    ELSE IF id = 800 THEN "Clear"
    ELSE "Clouds"

get_weather_description(id) ==
    IF id < 300 THEN "Thunderstorm"
    ELSE IF id < 500 THEN "Drizzle"
    ELSE IF id < 600 THEN "Rain"
    ELSE IF id < 700 THEN "Snow"
    ELSE IF id < 800 THEN "Atmosphere"
    ELSE IF id = 800 THEN "Clear"
    ELSE "Clouds"

\* condition codes the provider may hand over, documented or not
Codes == (0 - MaxCode)..MaxCode

LabelInit ==
    /\ weather_id \in Codes
    /\ weather_description = ""
    /\ UnitInit /\ ExtremesIdle /\ TimeIdle

\* weather_description = get_weather_description(weather_id)
Describe ==
    /\ weather_description = ""
    /\ weather_description' = get_weather_description(weather_id)
    /\ UNCHANGED <<weather_id, unitVars, extremesVars, timeVars>>

SpecLabel == LabelInit /\ [][Describe]_vars

\* C8: the label of a code is the one of its band: below 300 Thunderstorm,
\* 300..499 Drizzle, 500..599 Rain, 600..699 Snow, 700..799 Atmosphere,
\* 800 Clear, above 800 Clouds.
C8_BandsAtBoundaries ==
    weather_description # "" =>
        /\ (weather_description = "Thunderstorm") <=> (weather_id <= 299)
        /\ (weather_description = "Drizzle") <=> (weather_id \in 300..499)
        /\ (weather_description = "Rain") <=> (weather_id \in 500..599)
        /\ (weather_description = "Snow") <=> (weather_id \in 600..699)
        /\ (weather_description = "Atmosphere") <=> (weather_id \in 700..799)
        /\ (weather_description = "Clear") <=> (weather_id = 800)
        /\ (weather_description = "Clouds") <=> (weather_id >= 801)

C8_Witness == weather_id = 300 /\ weather_description = "Drizzle"

\* C10 as stated: every code outside the provider's range 200..804, the
\* negative ones included, is labelled Clouds.
C10_OutOfRangeIsClouds ==
    (weather_description # "" /\ (weather_id < 200 \/ weather_id > 804))
        => weather_description = "Clouds"

\* C10 amended: a code above the provider's range (> 804) reaches the last
\* branch and is labelled Clouds; a code below it (< 200), every negative code
\* included, is taken by the first branch and labelled Thunderstorm.
C10_OutOfRangeLabels ==
    weather_description # "" =>
        /\ weather_id > 804 => weather_description = "Clouds"
        /\ weather_id < 200 => weather_description = "Thunderstorm"

C10_Witness == weather_id < 0 /\ weather_description = "Thunderstorm"

----------------------------------------------------------------------------
(* Dates and times.  A timestamp counts minutes since the epoch (the         *)
(* provider's seconds, scaled); a datetime is a wall-clock reading with the  *)
(* zone attached to it, "" for a naive one.                                  *)

Zones == {"UTC", "Asia/Kolkata", "America/New_York"}

\* pytz: minutes east of UTC (standard time)
utcoffset(tz) ==
    CASE tz = "Asia/Kolkata" -> 330
      [] tz = "America/New_York" -> 0 - 300
      [] OTHER -> 0

\* datetime.fromtimestamp(ts): the naive local time of the server
fromtimestamp(ts, local) == [wall |-> ts + utcoffset(local), tzinfo |-> ""]

\* d.replace(tzinfo=tz): the same reading, relabelled
replace_tzinfo(d, tz) == [d EXCEPT !.tzinfo = tz]

\* d.astimezone(tz), d aware
astimezone(d, tz) ==
    [wall |-> d.wall - utcoffset(d.tzinfo) + utcoffset(tz), tzinfo |-> tz]

\* d.date(), as a day number
date(d) == d.wall \div (24 * 60)

\* d.strftime('%Y-%m-%d %H:%M %Z')
strftime(d) == <<date(d), (d.wall % (24 * 60)) \div 60, d.wall % 60, d.tzinfo>>

Midnight == 20000 * 24 * 60
Noon == Midnight + 12 * 60

----------------------------------------------------------------------------
(* get_expected_max_min and the range line of summarize_weather *)

RECURSIVE py_max(_)
py_max(values) ==
    IF Len(values) = 1 THEN values[1]
    ELSE LET m == py_max(Tail(values))
         IN  IF values[1] >= m THEN values[1] ELSE m

RECURSIVE py_min(_)
py_min(values) ==
    IF Len(values) = 1 THEN values[1]
    ELSE LET m == py_min(Tail(values))
         IN  IF values[1] <= m THEN values[1] ELSE m

get_expected_max_min_unfiltered(forecast, clock, local) ==
    IF forecast = <<>>
       THEN NoPair
       ELSE [none |-> FALSE,
             max |-> py_max([i \in DOMAIN forecast |-> forecast[i].temp_max]),
             min |-> py_min([i \in DOMAIN forecast |-> forecast[i].temp_min])]

get_expected_max_min(forecast, clock, local) ==
    LET today == date(fromtimestamp(clock, local))
        dated_today(f) == date(fromtimestamp(f.dt, local)) = today
        today_forecasts == SelectSeq(forecast, dated_today)
    IN  IF today_forecasts = <<>>
           THEN NoPair
           ELSE [none |-> FALSE,
                 max |-> py_max([i \in DOMAIN today_forecasts |->
                                    today_forecasts[i].temp_max]),
                 min |-> py_min([i \in DOMAIN today_forecasts |->
                                    today_forecasts[i].temp_min])]

\* summarize_weather: the "Today's expected temperature range" line
range_line_of(temperature, pair) ==
    IF temperature /\ ~pair.none THEN "emitted" ELSE "omitted"

Temps == 0..MaxTemp

ForecastTimes == {Noon - 12 * 60, Noon, Noon + 12 * 60}

ForecastPoints ==
    {f \in [dt : ForecastTimes, temp_min : Temps, temp_max : Temps] :
        f.temp_min <= f.temp_max}

ExtremesInit ==
    /\ forecast_list \in SeqsUpTo(ForecastPoints, MaxForecast)
    /\ now \in {Noon, Noon + 10 * 60}
    /\ server_tz \in Zones
    /\ temperature_pref \in BOOLEAN
    /\ expected = NoPair
    /\ range_line = "pending"
    /\ timezone = "UTC" /\ stamps = NoStamps /\ shown = NotShown
    /\ UnitInit /\ LabelIdle

\* summarize_weather: expected_max, expected_min and the range line
SummarizeRange ==
    /\ range_line = "pending"
    /\ expected' = get_expected_max_min(forecast_list, now, server_tz)
    /\ range_line' = range_line_of(temperature_pref, expected')
    /\ UNCHANGED <<forecast_list, now, temperature_pref, unitVars, labelVars,
                   timeVars>>

SpecExtremes == ExtremesInit /\ [][SummarizeRange]_vars

\* the forecast points whose calendar date, on the server's clock, is today's
TodayPoints ==
    {i \in DOMAIN forecast_list :
        (forecast_list[i].dt + utcoffset(server_tz)) \div 1440
            = (now + utcoffset(server_tz)) \div 1440}

\* C9: the pair is (None, None) exactly when no point is dated today;
\* otherwise its maximum is the largest temp_max and its minimum the smallest
\* temp_min among today's points, whatever the other points hold; and the
\* range line is emitted only for a pair that is not None.
C9_DailyExtremes ==
    range_line # "pending" =>
        /\ expected.none <=> TodayPoints = {}
        /\ ~expected.none =>
             /\ \A i \in TodayPoints :
                  /\ forecast_list[i].temp_max <= expected.max
                  /\ forecast_list[i].temp_min >= expected.min
             /\ \E i \in TodayPoints : forecast_list[i].temp_max = expected.max
             /\ \E i \in TodayPoints : forecast_list[i].temp_min = expected.min
        /\ range_line = "emitted" => ~expected.none
        /\ (temperature_pref /\ ~expected.none) => range_line = "emitted"

C9_Witness ==
    /\ range_line = "emitted"
    /\ Len(forecast_list) = 2
    /\ Cardinality(TodayPoints) = 1
    /\ \E i \in DOMAIN forecast_list :
         /\ i \notin TodayPoints
         /\ forecast_list[i].temp_max > expected.max

----------------------------------------------------------------------------
(* The times shown in the report and in the HTML document *)

\* summarize_weather:
\* datetime.fromtimestamp(ts).replace(tzinfo=pytz.UTC).astimezone(tz)
summary_time(ts, local, tz) ==
    astimezone(replace_tzinfo(fromtimestamp(ts, local), "UTC"), tz)

\* process_weather_request, weather_summary_dict: datetime.fromtimestamp(ts)
html_time(ts, local) == fromtimestamp(ts, local)

Epochs == {Midnight + 6 * 60 * k : k \in 0..MaxEpochStep}

TimeInit ==
    /\ server_tz \in Zones
    /\ timezone \in Zones
    /\ stamps \in [dt : Epochs, sunrise : Epochs, sunset : Epochs,
                   forecast_dt : Epochs]
    /\ shown = NotShown
    /\ UnitInit /\ LabelIdle
    /\ forecast_list = <<>> /\ now = 0 /\ temperature_pref = FALSE
    /\ expected = NoPair /\ range_line = "pending"

\* the times of summarize_weather's text and of weather_summary_dict
RenderTimes ==
    /\ ~shown.rendered
    /\ shown' =
         [rendered |-> TRUE,
          generated |-> strftime(summary_time(stamps.dt, server_tz, timezone)),
          sunrise |-> strftime(summary_time(stamps.sunrise, server_tz, timezone)),
          sunset |-> strftime(summary_time(stamps.sunset, server_tz, timezone)),
          forecast_date |->
              strftime(summary_time(stamps.forecast_dt, server_tz, timezone)),
          html_timestamp |-> strftime(html_time(stamps.dt, server_tz)),
          html_sunrise |-> strftime(html_time(stamps.sunrise, server_tz)),
          html_sunset |-> strftime(html_time(stamps.sunset, server_tz)),
          html_day |-> strftime(html_time(stamps.forecast_dt, server_tz))]
    /\ UNCHANGED <<server_tz, timezone, stamps, unitVars, labelVars,
                   extremesVars>>

SpecTime == TimeInit /\ [][RenderTimes]_vars

\* the day, hour and minute of a timestamp in a zone
InZone(ts, tz) ==
    <<(ts + utcoffset(tz)) \div 1440,
      ((ts + utcoffset(tz)) % 1440) \div 60,
      (ts + utcoffset(tz)) % 60>>

Clock(t) == <<t[1], t[2], t[3]>>

\* C7: every time shown, in the text report and in the HTML document, is the
\* provider's timestamp read in the request's timezone, on any server.
C7_TimesInRequestZone ==
    shown.rendered =>
        /\ Clock(shown.generated) = InZone(stamps.dt, timezone)
        /\ Clock(shown.sunrise) = InZone(stamps.sunrise, timezone)
        /\ Clock(shown.sunset) = InZone(stamps.sunset, timezone)
        /\ Clock(shown.forecast_date) = InZone(stamps.forecast_dt, timezone)
        /\ Clock(shown.html_timestamp) = InZone(stamps.dt, timezone)
        /\ Clock(shown.html_sunrise) = InZone(stamps.sunrise, timezone)
        /\ Clock(shown.html_sunset) = InZone(stamps.sunset, timezone)
        /\ Clock(shown.html_day) = InZone(stamps.forecast_dt, timezone)

============================================================================
